---- MODULE Spec2Model ----
(***************************************************************************)
(* A model of image_scraper: the candidate extraction pipeline             *)
(* (extract_image_urls), the download loop (download_images), the CLI      *)
(* entry point (main) and the Streamlit start handler (app).               *)
(*                                                                         *)
(* Text is modelled as a sequence of tokens.  A token is an atomic piece   *)
(* of text: a URL reference, a blank " ", a comma ",", a srcset descriptor *)
(* ("1x", "2x") or a piece of a host name.  The empty string is <<>>.      *)
(***************************************************************************)
EXTENDS Integers, Sequences, FiniteSets, TLC

VARIABLES
    entry,        \* "cli" (image_scraper.main) or "app" (the start handler)
    pc,           \* position of the running entry point
    cfg,          \* the parsed options and PIL_AVAILABLE
    html,         \* the markup returned by fetch_html
    img_urls,     \* the list returned by extract_image_urls
    i,            \* 1-based position of the loop in img_urls
    count,        \* download_images: count / app: saved
    files,        \* the files written to out_dir, in write order
    resp,         \* the response of the candidate being processed
    im,           \* what Image.open made of the body of that response
    needSleep,    \* a request was sent and no sleep(delay) has followed it yet
    fetched,      \* positions of img_urls that received a network request
    capAt,        \* position whose save made count reach max_images (0: none)
    interrupted,  \* a KeyboardInterrupt was delivered
    dirCreated,   \* out_dir was created (ensure_dir / os.makedirs)
    pageFetched,  \* fetch_html was called
    report        \* what the caller reported: <<kind, saved count>>

vars == <<entry, pc, cfg, html, img_urls, i, count, files, resp, im, needSleep,
          fetched, capAt, interrupted, dirCreated, pageFetched, report>>

\* ------------------------------------------------------------------ bounds

\* Largest number of <img> elements in an enumerated document.
MaxImgs == 2
\* Largest --max value enumerated.
MaxCap == 2
\* The nonzero --min-width / --min-height value enumerated.
MinDim == 2

\* ------------------------------------------------------------- text helpers

Range(s) == {s[k] : k \in 1..Len(s)}

RECURSIVE Concat(_)
Concat(ss) == IF ss = <<>> THEN <<>> ELSE Head(ss) \o Concat(Tail(ss))

\* str.strip(): leading and trailing blanks removed.
RECURSIVE lstrip(_)
lstrip(s) == IF s # <<>> /\ Head(s) = " " THEN lstrip(Tail(s)) ELSE s

RECURSIVE rstrip(_)
rstrip(s) ==
    IF s # <<>> /\ s[Len(s)] = " " THEN rstrip(SubSeq(s, 1, Len(s) - 1)) ELSE s

strip(s) == rstrip(lstrip(s))

\* str.strip('\'"'): leading and trailing quote tokens removed.
RECURSIVE strip_quotes(_)
strip_quotes(s) ==
    IF s # <<>> /\ Head(s) \in {"'", "\""} THEN strip_quotes(Tail(s))
    ELSE IF s # <<>> /\ s[Len(s)] \in {"'", "\""}
         THEN strip_quotes(SubSeq(s, 1, Len(s) - 1))
         ELSE s

\* str.split(sep): the pieces between the occurrences of sep.
RECURSIVE split(_, _)
split(s, sep) ==
    IF \A k \in 1..Len(s) : s[k] # sep
    THEN <<s>>
    ELSE LET k == CHOOSE j \in 1..Len(s) :
                      s[j] = sep /\ \A h \in 1..(j - 1) : s[h] # sep
         IN  <<SubSeq(s, 1, k - 1)>> \o split(SubSeq(s, k + 1, Len(s)), sep)

\* Suffix test on token sequences (str.endswith).
endswith(t, suf) ==
    /\ Len(suf) <= Len(t)
    /\ SubSeq(t, Len(t) - Len(suf) + 1, Len(t)) = suf

\* ---------------------------------------------------------------- urlparse

U(s, n, a, g, e) == [scheme |-> s, netloc |-> n, abs |-> a, segs |-> g, ext |-> e]

SiteHost == <<"site", ".", "test">>
ImgHost  == <<"img", ".", "site", ".", "test">>
CdnHost  == <<"cdn", ".", "test">>
EvilHost == <<"evil", "site", ".", "test">>

\* urlparse of one reference token: scheme, netloc, whether the path starts
\* with "/", the path segments, and os.path.splitext(path)[1].lower().
urlparse(tok) ==
    CASE tok = "/a.png"   -> U("", <<>>, TRUE, <<"a.png">>, ".png")
      [] tok = "a.png"    -> U("", <<>>, FALSE, <<"a.png">>, ".png")
      [] tok = "/c"       -> U("", <<>>, TRUE, <<"c">>, "")
      [] tok = "/e.txt"   -> U("", <<>>, TRUE, <<"e.txt">>, ".txt")
      [] tok = "/s.png"   -> U("", <<>>, TRUE, <<"s.png">>, ".png")
      [] tok = "//cdn.test/b.jpg" -> U("", CdnHost, TRUE, <<"b.jpg">>, ".jpg")
      [] tok = "data:AAA" -> U("data", <<>>, FALSE, <<"AAA">>, "")
      [] tok = "DATA:AAA" -> U("data", <<>>, FALSE, <<"AAA">>, "")
      [] tok = "https://site.test/page"  -> U("https", SiteHost, TRUE, <<"page">>, "")
      [] tok = "https://site.test/a.png" -> U("https", SiteHost, TRUE, <<"a.png">>, ".png")
      [] tok = "https://site.test/c"     -> U("https", SiteHost, TRUE, <<"c">>, "")
      [] tok = "https://site.test/e.txt" -> U("https", SiteHost, TRUE, <<"e.txt">>, ".txt")
      [] tok = "https://site.test/s.png" -> U("https", SiteHost, TRUE, <<"s.png">>, ".png")
      [] tok = "https://cdn.test/b.jpg"  -> U("https", CdnHost, TRUE, <<"b.jpg">>, ".jpg")
      [] tok = "https://img.site.test/d.gif" -> U("https", ImgHost, TRUE, <<"d.gif">>, ".gif")
      [] tok = "https://evilsite.test/f.png" -> U("https", EvilHost, TRUE, <<"f.png">>, ".png")
      [] OTHER -> U("", <<>>, FALSE, <<tok>>, "")

\* The absolute URL tokens: what urlunparse can produce here.
AbsTokens ==
    {"https://site.test/page", "https://site.test/a.png", "https://site.test/c",
     "https://site.test/e.txt", "https://site.test/s.png", "https://cdn.test/b.jpg",
     "https://img.site.test/d.gif", "https://evilsite.test/f.png"}

urlunparse(p) == CHOOSE t \in AbsTokens : urlparse(t) = p

\* The page URL (--url).
base_url == <<"https://site.test/page">>

\* urllib.parse.urljoin(base, url).  The leading token is resolved against
\* the base; whatever follows it is part of the path and is kept verbatim.
urljoin(base, url) ==
    IF url = <<>> THEN base
    ELSE LET b == urlparse(base[1])
             r == urlparse(url[1])
             joined ==
                 IF r.scheme # "" /\ r.scheme # b.scheme THEN url[1]
                 ELSE IF r.scheme # "" THEN urlunparse(r)
                 ELSE IF r.netloc # <<>>
                      THEN urlunparse([r EXCEPT !.scheme = b.scheme])
                 ELSE IF r.abs
                      THEN urlunparse([r EXCEPT !.scheme = b.scheme,
                                                !.netloc = b.netloc])
                 ELSE urlunparse([r EXCEPT
                          !.scheme = b.scheme, !.netloc = b.netloc, !.abs = TRUE,
                          !.segs = SubSeq(b.segs, 1, Len(b.segs) - 1) \o r.segs])
         IN  <<joined>> \o Tail(url)

\* urlparse(u).netloc of a URL string.
netloc(u) == IF u = <<>> THEN <<>> ELSE urlparse(u[1]).netloc

\* os.path.splitext(urlparse(u).path)[1].lower(): the suffix of the last
\* path component, which is the last token of the string.
url_ext(u) == IF u = <<>> THEN "" ELSE urlparse(u[Len(u)]).ext

\* ------------------------------------------------------- extract_image_urls

\* img.get(attr): the attribute's value; None and "" are both falsy and are
\* both <<>> here.
Get(tag, attr) == IF attr \in DOMAIN tag THEN tag[attr] ELSE <<>>

LazyAttrs ==
    <<"src", "data-src", "data-original", "data-lazy", "data-srcset",
      "data-original-src">>

\* Lines 89-93: every populated attribute, in the order of the tuple.
attr_candidates(img) ==
    SelectSeq([k \in 1..Len(LazyAttrs) |-> Get(img, LazyAttrs[k])],
              LAMBDA v : v # <<>>)

\* Line 96: img.get("srcset") or img.get("data-srcset").
srcset_value(img) ==
    IF Get(img, "srcset") # <<>> THEN Get(img, "srcset")
    ELSE Get(img, "data-srcset")

\* Lines 97-101: the URL token of every comma-separated entry.
srcset_candidates(img) ==
    LET srcset == srcset_value(img)
        parts == split(srcset, ",")
        url_part(part) == strip(Head(split(strip(part), " ")))
    IN  IF srcset = <<>> THEN <<>>
        ELSE SelectSeq([k \in 1..Len(parts) |-> url_part(parts[k])],
                       LAMBDA v : v # <<>>)

\* Lines 88-105: the resolved candidates of one <img>, in urls.add order.
img_candidates(img) ==
    LET candidates == attr_candidates(img) \o srcset_candidates(img)
    IN  [k \in 1..Len(candidates) |-> urljoin(base_url, candidates[k])]

MetaProps == <<"og:image", "twitter:image", "twitter:image:src">>

\* soup.find("meta", attrs={key: prop}): the first such tag, or <<>> (None).
find_meta(metas, key, prop) ==
    LET hits == SelectSeq(metas, LAMBDA m : key \in DOMAIN m /\ m[key] = prop)
    IN  IF hits = <<>> THEN <<>> ELSE <<Head(hits)>>

\* Lines 108-111: per property, the content of the tag found by property,
\* or else by name, when it has one.
meta_candidates(metas) ==
    LET tag(prop) ==
            IF find_meta(metas, "property", prop) # <<>>
            THEN find_meta(metas, "property", prop)
            ELSE find_meta(metas, "name", prop)
        one(prop) ==
            IF tag(prop) # <<>> /\ Get(tag(prop)[1], "content") # <<>>
            THEN <<urljoin(base_url, strip(tag(prop)[1]["content"]))>>
            ELSE <<>>
    IN  Concat([k \in 1..Len(MetaProps) |-> one(MetaProps[k])])

\* Line 115: re.findall(r'url\\(([^)]+)\\)', html).  In the raw string the
\* pattern is  url \\ ( ( [^)]+ ) \\ )  : a literal backslash, a group holding
\* a group and a second literal backslash.  It matches the text  url\X\  and
\* never  url(X) ; having two groups, findall returns tuples.
style_urls(doc) ==
    {s.val : s \in {t \in Range(doc.styles) : t.form = "backslash"}}

\* Line 117: su.strip on a tuple raises AttributeError.
style_raises(doc) == style_urls(doc) # {}

\* Lines 116-119 for the matches that are strings: none, with this pattern.
style_candidates(doc) == <<>>

\* The resolved references in the order of the urls.add calls (lines 88-119).
added(doc) ==
    Concat([k \in 1..Len(doc.imgs) |-> img_candidates(doc.imgs[k])])
        \o meta_candidates(doc.metas)
        \o style_candidates(doc)

\* Line 85: urls is a set.
urls(doc) == Range(added(doc))

\* Line 124: "for u in urls" visits a set of strings in hash order, which
\* str hash randomisation changes from process to process: any order.
RECURSIVE set_orders(_)
set_orders(S) ==
    IF S = {} THEN {<<>>}
    ELSE UNION {{<<x>> \o o : o \in set_orders(S \ {x})} : x \in S}

allowed_exts ==
    {".jpg", ".jpeg", ".png", ".gif", ".webp", ".bmp", ".svg", ".tiff", ".tif",
     ".avif"}

\* A filter that drops what the allow-list does not match.
filter_exts_drop(us) ==
    SelectSeq(us, LAMBDA u : url_ext(u) # "" /\ url_ext(u) \in allowed_exts)

\* Lines 122-131: both branches append u.
filter_exts(us) ==
    SelectSeq(us, LAMBDA u :
        IF url_ext(u) # "" /\ url_ext(u) \in allowed_exts THEN TRUE ELSE TRUE)

\* Line 133: list(dict.fromkeys(filtered)): first occurrences, in order.
RECURSIVE dict_fromkeys(_)
dict_fromkeys(s) ==
    IF s = <<>> THEN <<>>
    ELSE LET init == dict_fromkeys(SubSeq(s, 1, Len(s) - 1))
         IN  IF s[Len(s)] \in Range(init) THEN init ELSE Append(init, s[Len(s)])

\* extract_image_urls(html, base_url): the lists it can return.  It returns
\* nothing (raises) when style_raises.
extract_image_urls(doc) ==
    IF style_raises(doc) THEN {}
    ELSE {dict_fromkeys(filter_exts(o)) : o \in set_orders(urls(doc))}

\* ---------------------------------------------------------------- documents

\* <img> elements.
ImgPool ==
    { ("src" :> <<"/a.png">>),
      ("src" :> <<"a.png">>) @@ ("data-src" :> <<"//cdn.test/b.jpg">>),
      ("src" :> <<"/c">>) @@ ("srcset" :> <<"/a.png", " ", "1x", ",", " ", "/e.txt", " ", "2x">>),
      ("data-srcset" :> <<"/c", " ", "1x", ",", "https://img.site.test/d.gif">>),
      ("srcset" :> <<"/c", " ", "1x">>) @@ ("data-srcset" :> <<"/e.txt", " ", "2x">>),
      ("src" :> <<>>) @@ ("data-original" :> <<"/e.txt">>) }

\* <meta> tag lists.
MetaPool ==
    { <<>>,
      << ("property" :> "og:image") @@ ("content" :> <<"//cdn.test/b.jpg">>) >>,
      << ("property" :> "og:image"),
         ("name" :> "twitter:image") @@ ("content" :> <<" ", "/a.png", " ">>) >> }

\* Inline-style url references in the raw text: url(X), or url\X\ .
StylePool ==
    { <<>>,
      << [form |-> "paren", val |-> <<"'", "/s.png", "'">>],
         [form |-> "paren", val |-> <<"DATA:AAA">>] >>,
      << [form |-> "backslash", val |-> <<"/s.png">>] >> }

RECURSIVE SeqsUpTo(_, _)
SeqsUpTo(S, n) ==
    IF n = 0 THEN {<<>>}
    ELSE SeqsUpTo(S, n - 1)
             \cup {Append(s, x) : s \in {t \in SeqsUpTo(S, n - 1) : Len(t) = n - 1},
                                  x \in S}

Docs ==
    {[imgs |-> is, metas |-> ms, styles |-> ss] :
        is \in SeqsUpTo(ImgPool, MaxImgs), ms \in MetaPool, ss \in StylePool}

NoDoc == [imgs |-> <<>>, metas |-> <<>>, styles |-> <<>>]

NoResp == [kind |-> "none", status |-> 0, ctype |-> <<>>]

NoIm == [tried |-> FALSE, ok |-> FALSE, w |-> 0, h |-> 0]

NoCfg ==
    [max_images |-> 0, only_same_domain |-> FALSE, min_w |-> 0, min_h |-> 0,
     no_robots |-> FALSE, pil |-> FALSE]

\* ------------------------------------------------- extraction on its own

InitExtract ==
    /\ entry = "extract"
    /\ pc = "extract"
    /\ cfg = NoCfg
    /\ html \in Docs
    /\ img_urls = <<>>
    /\ i = 0
    /\ count = 0
    /\ files = <<>>
    /\ resp = NoResp
    /\ im = NoIm
    /\ needSleep = FALSE
    /\ fetched = {}
    /\ capAt = 0
    /\ interrupted = FALSE
    /\ dirCreated = FALSE
    /\ pageFetched = FALSE
    /\ report = <<"none", 0>>

\* extract_image_urls(html, base_url) returns a list.
ExtractReturns ==
    /\ pc = "extract"
    /\ \E r \in extract_image_urls(html) :
           /\ img_urls' = r
           /\ pc' = "extracted"
    /\ UNCHANGED <<entry, cfg, html, i, count, files, resp, im, needSleep,
                   fetched, capAt, interrupted, dirCreated, pageFetched, report>>

\* extract_image_urls(html, base_url) raises.
ExtractRaises ==
    /\ pc = "extract"
    /\ style_raises(html)
    /\ pc' = "raised"
    /\ UNCHANGED <<entry, cfg, html, img_urls, i, count, files, resp, im,
                   needSleep, fetched, capAt, interrupted, dirCreated, pageFetched,
                   report>>

NextExtract == ExtractReturns \/ ExtractRaises

SpecExtract == InitExtract /\ [][NextExtract]_vars


\* ------------------------------------------------------ download helpers

\* Lines 158-161: same_domain(base_url, target_url).
same_domain(b_url, t_url) ==
    LET b == netloc(b_url)
        t == netloc(t_url)
    IN  b = t \/ endswith(t, <<".">> \o b)

\* Lines 136-138: the Content-Type value starts with "image/".
content_type_is_image(r) == r.ctype # <<>> /\ Head(r.ctype) = "image/"

\* mimetypes.guess_extension of a MIME type; "" stands for None.
guess_extension(ctype) ==
    CASE ctype = <<"image/", "png">> -> ".png"
      [] ctype = <<"text/", "html">> -> ".html"
      [] OTHER -> ""

\* Lines 141-155: the URL's suffix, else the MIME type's, else ".jpg".
infer_extension(r, url) ==
    IF url_ext(url) # "" THEN url_ext(url)
    ELSE IF r.ctype # <<>> /\ guess_extension(r.ctype) # ""
         THEN guess_extension(r.ctype)
         ELSE ".jpg"

\* hashlib.sha1(url).hexdigest()[:12]: a digest stands for the string it
\* digests (no two of the URLs here collide).
sha1_12(url) == url

\* Lines 168-170: f"{idx:04d}_{h}{ext}".
hash_to_name(url, idx, ext) == [idx |-> idx, h |-> sha1_12(url), ext |-> ext]

\* A loop that goes on when count equals max_images.
cap_reached_late(c, max_images) == c > max_images

\* Line 180: count >= max_images.
cap_reached(c, max_images) == c >= max_images

\* A skip that ignores the --same-domain switch.
domain_skip_always(c, url) == ~same_domain(base_url, url)

\* Line 183: only_same_domain and not same_domain(base_url, img_url).
domain_skip(c, url) == c.only_same_domain /\ ~same_domain(base_url, url)

\* Line 188: resp.status_code >= 400.
http_failed(r) == r.status >= 400

\* Lines 191-196: not an image by its Content-Type, and no Pillow to ask.
ctype_rejected(c, r) == ~content_type_is_image(r) /\ ~c.pil

\* Line 202: PIL_AVAILABLE and (min_w or min_h).
size_filter_active(c) == c.pil /\ (c.min_w # 0 \/ c.min_h # 0)

\* Line 206: (min_w and w < min_w) or (min_h and h < min_h).
too_small(c, w, h) ==
    (c.min_w # 0 /\ w < c.min_w) \/ (c.min_h # 0 /\ h < c.min_h)

\* A size filter that rejects what it cannot decode.
after_decode_error_reject == "sleep_small"

\* Lines 209-211: except Exception: pass, on to the save.
after_decode_error == "save"

\* An error handler that lets the exception out of download_images.
after_exception_raise == "raised"

\* Lines 225-229: except Exception: print, sleep(delay), continue.
after_exception == "sleep_err"

\* The statements of download_images inside the try block (lines 187-220).
TryPcs == {"fetch", "size_check", "sleep_small", "save", "incr", "sleep_saved"}

\* The statements of download_images outside it: the setup (174-177), the
\* loop head (179-184) and the except-Exception handler (227-229).
OutsideTryPcs == {"download", "loop", "sleep_err"}

\* ------------------------------------------------------------------ inputs

Statuses == {200, 400}

ContentTypes == {<<"image/", "png">>, <<"text/", "html">>, <<>>}

\* The pixel sizes a decoded image may have.
Sizes == {MinDim - 1, MinDim + 1}

\* The options: --max, --same-domain, --min-width, --min-height, --no-robots,
\* and whether Pillow imported.  The app's number_input keeps max >= 1.
Configs(e) ==
    [max_images : (IF e = "cli" THEN 0 ELSE 1)..MaxCap,
     only_same_domain : BOOLEAN,
     min_w : {0, MinDim},
     min_h : {0, MinDim},
     no_robots : BOOLEAN,
     pil : BOOLEAN]

\* The pages fetch_html may return.
Pages ==
    { NoDoc,
      [imgs |-> << ("src" :> <<"/c">>) >>,
       metas |-> << ("property" :> "og:image") @@ ("content" :> <<"//cdn.test/b.jpg">>) >>,
       styles |-> <<>>],
      [imgs |-> << ("src" :> <<"https://img.site.test/d.gif">>)
                     @@ ("data-src" :> <<"https://evilsite.test/f.png">>),
                   ("src" :> <<"a.png">>) >>,
       metas |-> <<>>,
       styles |-> << [form |-> "paren", val |-> <<"/s.png">>] >>],
      [imgs |-> << ("src" :> <<"/a.png">>) >>,
       metas |-> <<>>,
       styles |-> << [form |-> "backslash", val |-> <<"/s.png">>] >>] }

\* -------------------------------------------------------------------- Init

Init ==
    /\ entry \in {"cli", "app"}
    /\ pc = "start"
    /\ cfg \in Configs(entry)
    /\ html = NoDoc
    /\ img_urls = <<>>
    /\ i = 0
    /\ count = 0
    /\ files = <<>>
    /\ resp = NoResp
    /\ im = NoIm
    /\ needSleep = FALSE
    /\ fetched = {}
    /\ capAt = 0
    /\ interrupted = FALSE
    /\ dirCreated = FALSE
    /\ pageFetched = FALSE
    /\ report = <<"none", 0>>

\* ------------------------------------------------------ image_scraper.main

\* Lines 235-240: parse_args, then the robots.txt gate.
main_robots ==
    /\ entry = "cli" /\ pc = "start"
    /\ \E allowed \in BOOLEAN :
           IF ~cfg.no_robots /\ ~allowed
           THEN pc' = "exit" /\ report' = <<"robots", 0>>
           ELSE pc' = "fetch_html" /\ UNCHANGED report
    /\ UNCHANGED <<entry, cfg, html, img_urls, i, count, files, resp, im,
                   needSleep, fetched, capAt, interrupted, dirCreated, pageFetched>>

\* Lines 242-246: fetch_html, whose failure ends the run.
main_fetch_html ==
    /\ entry = "cli" /\ pc = "fetch_html"
    /\ pageFetched' = TRUE
    /\ \/ \E page \in Pages :
              html' = page /\ pc' = "extract" /\ UNCHANGED report
       \/ pc' = "exit" /\ report' = <<"page_failed", 0>> /\ UNCHANGED html
    /\ UNCHANGED <<entry, cfg, img_urls, i, count, files, resp, im, needSleep,
                   fetched, capAt, interrupted, dirCreated>>

\* Lines 248-249: extract_image_urls; main catches nothing it raises.
main_extract ==
    /\ entry = "cli" /\ pc = "extract"
    /\ \/ \E r \in extract_image_urls(html) :
              img_urls' = r /\ pc' = "download" /\ UNCHANGED report
       \/ /\ style_raises(html)
          /\ pc' = "exit" /\ report' = <<"raised", 0>> /\ UNCHANGED img_urls
    /\ UNCHANGED <<entry, cfg, html, i, count, files, resp, im, needSleep,
                   fetched, capAt, interrupted, dirCreated, pageFetched>>

\* ---------------------------------------------------------- download_images

\* Lines 174-177: ensure_dir(out_dir), count = 0, the session.
download_begin ==
    /\ entry = "cli" /\ pc = "download"
    /\ dirCreated' = TRUE
    /\ count' = 0
    /\ i' = 1
    /\ pc' = "loop"
    /\ UNCHANGED <<entry, cfg, html, img_urls, files, resp, im, needSleep,
                   fetched, capAt, interrupted, pageFetched, report>>

\* Lines 179-184: the end of the list, the cap, the same-domain skip.
loop_head ==
    /\ entry = "cli" /\ pc = "loop"
    /\ IF i > Len(img_urls) \/ cap_reached(count, cfg.max_images)
       THEN pc' = "return" /\ UNCHANGED i
       ELSE IF domain_skip(cfg, img_urls[i])
            THEN pc' = "loop" /\ i' = i + 1
            ELSE pc' = "fetch" /\ UNCHANGED i
    /\ UNCHANGED <<entry, cfg, html, img_urls, count, files, resp, im, needSleep,
                   fetched, capAt, interrupted, dirCreated, pageFetched, report>>

\* Lines 187-196: session.get, the status check, the Content-Type check.
fetch ==
    /\ entry = "cli" /\ pc = "fetch"
    /\ needSleep' = TRUE
    /\ im' = NoIm
    /\ \/ /\ resp' = [kind |-> "error", status |-> 0, ctype |-> <<>>]
          /\ pc' = after_exception
          /\ UNCHANGED i
       \/ \E st \in Statuses, ct \in ContentTypes :
              /\ resp' = [kind |-> "response", status |-> st, ctype |-> ct]
              /\ IF http_failed(resp') \/ ctype_rejected(cfg, resp')
                 THEN pc' = "loop" /\ i' = i + 1
                 ELSE pc' = "size_check" /\ UNCHANGED i
    /\ fetched' = fetched \cup {<<i, IF resp'.kind = "error" THEN "error"
                                     ELSE IF resp'.status >= 400 THEN "http_error"
                                     ELSE "ok">>}
    /\ UNCHANGED <<entry, cfg, html, img_urls, count, files, capAt, interrupted,
                   dirCreated, pageFetched, report>>

\* Lines 199-211: resp.content, infer_extension, the Pillow size check.
size_check ==
    /\ entry = "cli" /\ pc = "size_check"
    /\ \/ /\ pc' = after_exception            \* reading the body failed
          /\ UNCHANGED im
       \/ /\ ~size_filter_active(cfg)
          /\ pc' = "save"
          /\ UNCHANGED im
       \/ /\ size_filter_active(cfg)           \* Image.open raised
          /\ im' = [tried |-> TRUE, ok |-> FALSE, w |-> 0, h |-> 0]
          /\ pc' = after_decode_error
       \/ /\ size_filter_active(cfg)
          /\ \E w \in Sizes, h \in Sizes :
                 /\ im' = [tried |-> TRUE, ok |-> TRUE, w |-> w, h |-> h]
                 /\ pc' = IF too_small(cfg, w, h) THEN "sleep_small" ELSE "save"
    /\ UNCHANGED <<entry, cfg, html, img_urls, i, count, files, resp, needSleep,
                   fetched, capAt, interrupted, dirCreated, pageFetched, report>>

\* Lines 213-216: the file name from count + 1, the body written.
save ==
    /\ entry = "cli" /\ pc = "save"
    /\ \/ /\ files' = Append(files,
                 [name |-> hash_to_name(img_urls[i], count + 1,
                                        infer_extension(resp, img_urls[i])),
                  pos |-> i, ctype |-> resp.ctype])
          /\ pc' = "incr"
       \/ /\ pc' = after_exception             \* open or write failed
          /\ UNCHANGED files
    /\ UNCHANGED <<entry, cfg, html, img_urls, i, count, resp, im, needSleep,
                   fetched, capAt, interrupted, dirCreated, pageFetched, report>>

\* Lines 218-219: count += 1.
incr ==
    /\ entry = "cli" /\ pc = "incr"
    /\ count' = count + 1
    /\ capAt' = IF count' = cfg.max_images THEN i ELSE capAt
    /\ pc' = "sleep_saved"
    /\ UNCHANGED <<entry, cfg, html, img_urls, i, files, resp, im, needSleep,
                   fetched, interrupted, dirCreated, pageFetched, report>>

\* Lines 207-208, 220 and 228-229: time.sleep(delay), then the next candidate.
sleep ==
    /\ entry = "cli" /\ pc \in {"sleep_small", "sleep_saved", "sleep_err"}
    /\ needSleep' = FALSE
    /\ i' = i + 1
    /\ pc' = "loop"
    /\ UNCHANGED <<entry, cfg, html, img_urls, count, files, resp, im, fetched,
                   capAt, interrupted, dirCreated, pageFetched, report>>

\* Lines 222-224: a KeyboardInterrupt inside the try block breaks the loop;
\* anywhere else in download_images it leaves the function, and main, which
\* has no handler, ends without reporting.
keyboard_interrupt ==
    /\ entry = "cli" /\ pc \in TryPcs \cup OutsideTryPcs
    /\ ~interrupted
    /\ interrupted' = TRUE
    /\ IF pc \in TryPcs
       THEN pc' = "return" /\ UNCHANGED report
       ELSE pc' = "exit" /\ report' = <<"raised", 0>>
    /\ UNCHANGED <<entry, cfg, html, img_urls, i, count, files, resp, im,
                   needSleep, fetched, capAt, dirCreated, pageFetched>>

\* Lines 231 and 263: return count; main prints "Done. Saved {saved} ...".
download_return ==
    /\ entry = "cli" /\ pc = "return"
    /\ pc' = "exit"
    /\ report' = <<"done", count>>
    /\ UNCHANGED <<entry, cfg, html, img_urls, i, count, files, resp, im,
                   needSleep, fetched, capAt, interrupted, dirCreated, pageFetched>>

\* ------------------------------------------------- the app's start handler

\* app_import_shim.py lines 122-127: the robots.txt gate, st.stop() on a
\* disallow.
app_robots ==
    /\ entry = "app" /\ pc = "start"
    /\ \E allowed \in BOOLEAN :
           IF ~cfg.no_robots /\ ~allowed
           THEN pc' = "exit" /\ report' = <<"robots", 0>>
           ELSE pc' = "fetch_html" /\ UNCHANGED report
    /\ UNCHANGED <<entry, cfg, html, img_urls, i, count, files, resp, im,
                   needSleep, fetched, capAt, interrupted, dirCreated, pageFetched>>

\* Lines 129-130 and 199-201: fetch_html; its failure is shown and stops.
app_fetch_html ==
    /\ entry = "app" /\ pc = "fetch_html"
    /\ pageFetched' = TRUE
    /\ \/ \E page \in Pages :
              html' = page /\ pc' = "extract" /\ UNCHANGED report
       \/ pc' = "exit" /\ report' = <<"page_failed", 0>> /\ UNCHANGED html
    /\ UNCHANGED <<entry, cfg, img_urls, i, count, files, resp, im, needSleep,
                   fetched, capAt, interrupted, dirCreated>>

\* Lines 132-139: extract_image_urls; no candidate stops the run.
app_extract ==
    /\ entry = "app" /\ pc = "extract"
    /\ \/ \E r \in extract_image_urls(html) :
              /\ img_urls' = r
              /\ IF Len(r) = 0
                 THEN pc' = "exit" /\ report' = <<"no_candidates", 0>>
                 ELSE pc' = "download" /\ UNCHANGED report
       \/ /\ style_raises(html)
          /\ pc' = "exit" /\ report' = <<"raised", 0>> /\ UNCHANGED img_urls
    /\ UNCHANGED <<entry, cfg, html, i, count, files, resp, im, needSleep,
                   fetched, capAt, interrupted, dirCreated, pageFetched>>

\* Lines 142-147: os.makedirs(out_dir), the session, saved = 0.
app_makedirs ==
    /\ entry = "app" /\ pc = "download"
    /\ dirCreated' = TRUE
    /\ count' = 0
    /\ i' = 1
    /\ pc' = "loop"
    /\ UNCHANGED <<entry, cfg, html, img_urls, files, resp, im, needSleep,
                   fetched, capAt, interrupted, pageFetched, report>>

\* Lines 148-153: the end of the list, the cap, the same-domain skip.
app_loop_head ==
    /\ entry = "app" /\ pc = "loop"
    /\ IF i > Len(img_urls) \/ count >= cfg.max_images
       THEN pc' = "return" /\ UNCHANGED i
       ELSE IF cfg.only_same_domain /\ ~same_domain(base_url, img_urls[i])
            THEN pc' = "loop" /\ i' = i + 1
            ELSE pc' = "fetch" /\ UNCHANGED i
    /\ UNCHANGED <<entry, cfg, html, img_urls, count, files, resp, im, needSleep,
                   fetched, capAt, interrupted, dirCreated, pageFetched, report>>

\* Lines 155-158 and 188-190: session.get and the status check; the app
\* does not look at the Content-Type and does not sleep.
app_fetch ==
    /\ entry = "app" /\ pc = "fetch"
    /\ needSleep' = TRUE
    /\ im' = NoIm
    /\ \/ /\ resp' = [kind |-> "error", status |-> 0, ctype |-> <<>>]
          /\ pc' = "loop" /\ i' = i + 1
       \/ \E st \in Statuses, ct \in ContentTypes :
              /\ resp' = [kind |-> "response", status |-> st, ctype |-> ct]
              /\ IF st >= 400
                 THEN pc' = "loop" /\ i' = i + 1
                 ELSE pc' = "size_check" /\ UNCHANGED i
    /\ fetched' = fetched \cup {<<i, IF resp'.kind = "error" THEN "error"
                                     ELSE IF resp'.status >= 400 THEN "http_error"
                                     ELSE "ok">>}
    /\ UNCHANGED <<entry, cfg, html, img_urls, count, files, capAt, interrupted,
                   dirCreated, pageFetched, report>>

\* Lines 160-178: resp.content, infer_extension, the Pillow size check.
app_size_check ==
    /\ entry = "app" /\ pc = "size_check"
    /\ \/ /\ pc' = "loop" /\ i' = i + 1       \* reading the body failed
          /\ UNCHANGED im
       \/ /\ ~(cfg.pil /\ (cfg.min_w # 0 \/ cfg.min_h # 0))
          /\ pc' = "save"
          /\ UNCHANGED <<im, i>>
       \/ /\ cfg.pil /\ (cfg.min_w # 0 \/ cfg.min_h # 0)
          /\ im' = [tried |-> TRUE, ok |-> FALSE, w |-> 0, h |-> 0]
          /\ pc' = "save"
          /\ UNCHANGED i
       \/ /\ cfg.pil /\ (cfg.min_w # 0 \/ cfg.min_h # 0)
          /\ \E w \in Sizes, h \in Sizes :
                 /\ im' = [tried |-> TRUE, ok |-> TRUE, w |-> w, h |-> h]
                 /\ IF (cfg.min_w # 0 /\ w < cfg.min_w)
                        \/ (cfg.min_h # 0 /\ h < cfg.min_h)
                    THEN pc' = "loop" /\ i' = i + 1
                    ELSE pc' = "save" /\ UNCHANGED i
    /\ UNCHANGED <<entry, cfg, html, img_urls, count, files, resp, needSleep,
                   fetched, capAt, interrupted, dirCreated, pageFetched, report>>

\* Lines 181-187: the name from saved + 1, the body written, saved += 1.
app_save ==
    /\ entry = "app" /\ pc = "save"
    /\ \/ /\ files' = Append(files,
                 [name |-> hash_to_name(img_urls[i], count + 1,
                                        infer_extension(resp, img_urls[i])),
                  pos |-> i, ctype |-> resp.ctype])
          /\ count' = count + 1
          /\ capAt' = IF count' = cfg.max_images THEN i ELSE capAt
       \/ UNCHANGED <<files, count, capAt>>    \* open or write failed
    /\ pc' = "loop"
    /\ i' = i + 1
    /\ UNCHANGED <<entry, cfg, html, img_urls, resp, im, needSleep, fetched,
                   interrupted, dirCreated, pageFetched, report>>

\* Lines 192-197: "Terminé. {saved} image(s) ...".
app_done ==
    /\ entry = "app" /\ pc = "return"
    /\ pc' = "exit"
    /\ report' = <<"done", count>>
    /\ UNCHANGED <<entry, cfg, html, img_urls, i, count, files, resp, im,
                   needSleep, fetched, capAt, interrupted, dirCreated, pageFetched>>

Next ==
    \/ main_robots \/ main_fetch_html \/ main_extract
    \/ download_begin \/ loop_head \/ fetch \/ size_check \/ save \/ incr
    \/ sleep \/ keyboard_interrupt \/ download_return
    \/ app_robots \/ app_fetch_html \/ app_extract \/ app_makedirs
    \/ app_loop_head \/ app_fetch \/ app_size_check \/ app_save \/ app_done

Spec == Init /\ [][Next]_vars

\* ------------------------------------------------------------------ claims

\* C1: in download_images the saved count never exceeds max_images, no more
\* than max_images files are written, and a candidate is requested only
\* while fewer than max_images files were saved from the candidates before it.
CapEnforced ==
    entry = "cli" =>
        /\ count <= cfg.max_images
        /\ Len(files) <= cfg.max_images
        /\ \A f \in fetched :
               Cardinality({k \in 1..Len(files) : files[k].pos < f[1]})
                   < cfg.max_images
        /\ capAt # 0 => \A f \in fetched : f[1] <= capAt

\* C1 witness: the cap was reached by a save, candidates were left, and the
\* run ended without requesting them.
CapWitness ==
    /\ entry = "cli" /\ pc = "exit" /\ report = <<"done", cfg.max_images>>
    /\ capAt # 0 /\ capAt < Len(img_urls)
    /\ Len(files) = cfg.max_images

\* C2: in download_images no candidate is requested while the request before
\* it has not been followed by a sleep(delay).
DelayAfterEveryAttempt == (entry = "cli" /\ pc = "fetch") => ~needSleep

\* C3: a fetch that raises or answers with a status >= 400 leaves count and
\* the files unchanged and goes on to the next candidate; no failed candidate
\* has a file; the loop visits the positions one by one; and, unless
\* interrupted, download_images returns its count with the cap reached or
\* every candidate visited.
FailureNeverAborts ==
    /\ [][(entry = "cli" /\ pc = "fetch" /\ interrupted' = interrupted
             /\ (resp'.kind = "error" \/ resp'.status >= 400))
          => /\ count' = count /\ files' = files
             /\ \/ pc' = "loop" /\ i' = i + 1
                \/ pc' = "sleep_err" /\ i' = i]_vars
    /\ [][(entry = "cli" /\ pc = "sleep_err" /\ interrupted' = interrupted)
          => (pc' = "loop" /\ i' = i + 1 /\ count' = count /\ files' = files)]_vars
    /\ [][(entry = "cli" /\ pc \in TryPcs \cup {"loop", "sleep_err"})
          => i' \in {i, i + 1}]_vars
    /\ [](entry = "cli" =>
            /\ \A k \in 1..Len(files) :
                   /\ <<files[k].pos, "error">> \notin fetched
                   /\ <<files[k].pos, "http_error">> \notin fetched
            /\ (pc = "exit" /\ dirCreated /\ ~interrupted) =>
                   /\ report = <<"done", count>>
                   /\ i > Len(img_urls) \/ count >= cfg.max_images)

\* C3 witness: the first request raised, the second got a status >= 400, the
\* third candidate was saved, and the run reported one image.
FailureWitness ==
    /\ entry = "cli" /\ pc = "exit" /\ ~interrupted
    /\ report = <<"done", 1>>
    /\ fetched = {<<1, "error">>, <<2, "http_error">>, <<3, "ok">>}
    /\ Len(files) = 1 /\ files[1].pos = 3

\* C4: download_images writes no file for a response whose Content-Type is
\* not image/...
NonImageNeverSaved ==
    entry = "cli" =>
        \A k \in 1..Len(files) :
            files[k].ctype # <<>> /\ files[k].ctype[1] = "image/"

\* C5: the list extract_image_urls returns holds the resolved references in
\* the order of their first discovery.
FirstSeenOrder ==
    pc = "extracted" => img_urls = dict_fromkeys(added(html))

\* C6: the list extract_image_urls returns has no URL twice, is no longer
\* than the number of references collected, and holds every resolved
\* reference, whatever its extension.
DedupKeepsAll ==
    pc = "extracted" =>
        /\ \A j, k \in 1..Len(img_urls) : j # k => img_urls[j] # img_urls[k]
        /\ Len(img_urls) <= Len(added(html))
        /\ Range(img_urls) = Range(added(html))

\* C6 witness: a list that lost a duplicate and keeps a URL without an
\* extension and one with a non-image extension.
DedupWitness ==
    /\ pc = "extracted"
    /\ Len(img_urls) < Len(added(html))
    /\ \E u \in Range(img_urls) : url_ext(u) = ""
    /\ \E u \in Range(img_urls) : url_ext(u) = ".txt"

\* C7: at the loop head of download_images, below the cap, a candidate that
\* --same-domain excludes is passed over with nothing requested, slept,
\* written or counted; every other candidate, and every candidate when the
\* switch is off, goes on to the request.
DomainSkipHasNoEffect ==
    [][(/\ entry = "cli" /\ pc = "loop" /\ interrupted' = interrupted
        /\ i <= Len(img_urls) /\ count < cfg.max_images)
       => IF cfg.only_same_domain /\ ~same_domain(base_url, img_urls[i])
          THEN /\ pc' = "loop" /\ i' = i + 1
               /\ UNCHANGED <<count, files, fetched, needSleep, resp, im>>
          ELSE pc' = "fetch" /\ i' = i]_vars

\* C7 witness: with the switch on, a run ended in which a candidate on
\* another host got no request and the candidate after it got one.
DomainSkipWitness ==
    /\ entry = "cli" /\ pc = "exit" /\ cfg.only_same_domain
    /\ \E p \in 1..Len(img_urls) :
           /\ ~same_domain(base_url, img_urls[p])
           /\ \A f \in fetched : f[1] # p
           /\ \E f \in fetched : f[1] = p + 1

\* C8: the size check of download_images rejects exactly when Pillow is
\* available, a minimum is nonzero, the body decoded and a side is below its
\* nonzero minimum; a body that does not decode goes on to the save.
SizeFilterFailsOpen ==
    [][(entry = "cli" /\ pc = "size_check" /\ interrupted' = interrupted)
       => LET active == cfg.pil /\ (cfg.min_w # 0 \/ cfg.min_h # 0)
              small  == \/ cfg.min_w # 0 /\ im'.w < cfg.min_w
                        \/ cfg.min_h # 0 /\ im'.h < cfg.min_h
              reject == active /\ im'.tried /\ im'.ok /\ small
          IN  /\ (pc' = "sleep_small") <=> reject
              /\ (im'.tried /\ ~reject) => pc' = "save"
              /\ (~active /\ pc' # "sleep_err") => (pc' = "save" /\ ~im'.tried)
              /\ im'.tried => active
              /\ count' = count /\ files' = files]_vars

\* C8 witness: a body that Pillow could not decode, with a minimum set, was
\* written to a file.
SizeFilterWitness ==
    /\ entry = "cli" /\ pc = "incr"
    /\ cfg.min_w # 0
    /\ im.tried /\ ~im.ok
    /\ files[Len(files)].pos = i

\* C9: a run whose download loop was interrupted still ends with main
\* reporting the count saved so far.
InterruptKeepsCount ==
    (entry = "cli" /\ pc = "exit" /\ interrupted /\ dirCreated)
        => report = <<"done", count>>

\* C10: after a failed page retrieval, and after an extraction that found no
\* candidate, no output directory exists, nothing was requested or written
\* and no image is reported; after a robots.txt disallow the page was not
\* fetched.
FatalBeforeDownload ==
    /\ report[1] = "robots" => ~pageFetched
    /\ (\/ report[1] = "page_failed"
        \/ /\ pc \notin {"start", "fetch_html", "extract"}
           /\ report[1] \notin {"robots", "page_failed"}
           /\ img_urls = <<>>)
       => /\ ~dirCreated
          /\ fetched = {}
          /\ files = <<>>
          /\ report[2] = 0

\* C11: the files download_images has written carry, in write order, the
\* indices 1, 2, ... and distinct names; count never runs ahead of the files
\* written; and once the loop has ended the files are exactly those of the
\* indices 1..count.
SaveIndexIsCount ==
    entry = "cli" =>
        /\ \A k \in 1..Len(files) : files[k].name.idx = k
        /\ \A j, k \in 1..Len(files) : j # k => files[j].name # files[k].name
        /\ count <= Len(files)
        /\ pc \in {"return", "exit"} => Len(files) = count

\* C12: for srcset and for data-srcset on every <img>, the URL token of each
\* comma-separated entry, resolved, is in the list extract_image_urls
\* returns, and the unsplit value, when it is not itself such a token, is
\* not.
SrcsetEntriesExtracted ==
    pc = "extracted" =>
        \A n \in 1..Len(html.imgs) : \A attr \in {"srcset", "data-srcset"} :
            LET value   == Get(html.imgs[n], attr)
                parts   == split(value, ",")
                tokens  == {strip(Head(split(strip(parts[k]), " "))) :
                               k \in 1..Len(parts)} \ {<<>>}
            IN  value # <<>> =>
                    /\ \A t \in tokens : urljoin(base_url, t) \in Range(img_urls)
                    /\ value \notin tokens
                           => urljoin(base_url, value) \notin Range(img_urls)

\* C13: markup whose inline-style references have the form url(X) never makes
\* extract_image_urls raise, and the list it returns holds, for each such
\* reference, X without its quotes resolved against the base URL, unless X
\* starts with the data: scheme, in which case the list does not hold it.
StyleUrlsExtracted ==
    LET refs == {s \in Range(html.styles) : s.form = "paren"}
    IN  /\ refs # {} => pc # "raised"
        /\ pc = "extracted" =>
               \A s \in refs :
                   LET x == strip_quotes(s.val)
                   IN  IF x # <<>> /\ urlparse(Head(x)).scheme = "data"
                       THEN urljoin(base_url, x) \notin Range(img_urls)
                       ELSE urljoin(base_url, x) \in Range(img_urls)

====
